---- MODULE Spec2Model ----
(***************************************************************************)
(* Model of vssource.indexers.base: Indexer / ExternalIndexer.             *)
(*                                                                         *)
(* The state is the indexer object (self.force, self.default_out_folder),  *)
(* the filesystem (source files, index artifacts), the indexer binary and  *)
(* the position of the running caller inside ExternalIndexer.index.  A     *)
(* caller indexes one batch of files repeatedly, choosing force for each   *)
(* call.  One action per filesystem operation or external call of index,   *)
(* in program order.  A second caller of the same batch shares the         *)
(* filesystem; its frame is kept aside while it does not run.              *)
(***************************************************************************)
EXTENDS Integers, Sequences, FiniteSets, TLC

(***************************************************************************)
(* Bounds                                                                  *)
(***************************************************************************)
\* longest list of files passed to one index call
MaxFiles == 2
\* number of index calls made in one behaviour
MaxCalls == 2

(***************************************************************************)
(* State                                                                   *)
(***************************************************************************)
VARIABLES
    self_force,          \* Indexer.force, set by the constructor
    default_out_folder,  \* ExternalIndexer.default_out_folder
    args,                \* files, split_files, output_folder, cmd_args of the calls
    srcExists,           \* the source files present on disk
    installed,           \* shutil.which(self.bin_path) finds the indexer binary
    tool,                \* what the indexer writes to stdout and stderr when it fails
    fs,                  \* index artifacts on disk: path -> content
    pc,                  \* position of the caller inside index
    force,               \* force argument of the running call
    pending,             \* per-folder sub-batches still to be indexed
    files,               \* files of the running sub-batch, sorted
    outputs,             \* target paths of the running sub-batch's units
    ui,                  \* unit of the sub-batch being resolved
    acc,                 \* paths of the sub-batches already finished
    result,              \* the list index returned
    err,                 \* the exception index raised, "" if none
    log,                 \* filesystem and process operations of the call
    prev,                \* summary of the previous call
    ncalls,              \* calls started so far
    cmd_args,            \* *cmd_args of the running frame of index
    procs,               \* the child processes the call launched
    msg,                 \* the text of the exception _run_index raised
    clip,                \* the node source is assembling or has returned
    other                \* the frame of the caller that is not running

vars == <<self_force, default_out_folder, args, srcExists, installed, tool, fs,
          pc, force, pending, files, outputs, ui, acc, result, err, log, prev,
          ncalls, cmd_args, procs, msg, clip, other>>

obj == <<self_force, default_out_folder, args, srcExists, installed, tool>>

\* what only the start of a call and _run_index change
launched == <<procs, msg>>

\* what only the start of a call and a change of caller change
aside == <<cmd_args, clip, other>>

\* the frame of a caller: everything but the indexer object and the disk
frame == <<pc, force, pending, files, outputs, ui, acc, result, err, log, prev,
           ncalls, cmd_args, procs, msg, clip>>

(***************************************************************************)
(* The source files of the bounded universe.  File ids are numbered in the *)
(* order in which sorted() puts their paths (SPath compares by parts).     *)
(*   1: /d1/a.mkv   2: /d1/a.ts   3: /d1/b.mkv   4: /d2/a.mkv              *)
(***************************************************************************)
Files == {1, 2, 3, 4}

\* SPath.get_folder().to_str() of a source file
get_folder(f) == IF f = 4 THEN "/d2" ELSE "/d1"

\* the dot-separated parts of SPath.name
name_parts(f) ==
    CASE f = 1 -> <<"a", "mkv">>
      [] f = 2 -> <<"a", "ts">>
      [] f = 3 -> <<"b", "mkv">>
      [] OTHER -> <<"a", "mkv">>

RECURSIVE join(_, _)
\* str.join: sep.join(parts)
join(sep, parts) ==
    IF Len(parts) = 0 THEN ""
    ELSE IF Len(parts) = 1 THEN parts[1]
    ELSE parts[1] \o sep \o join(sep, Tail(parts))

\* SPath.name of a source file
file_name(f) == join(".", name_parts(f))

\* PurePath.stem / the part PurePath.with_suffix keeps: the name without
\* its last dot-suffix (a name without a dot is kept whole)
drop_suffix(parts) ==
    IF Len(parts) > 1 THEN SubSeq(parts, 1, Len(parts) - 1) ELSE parts

\* Indexer.index_folder_name
index_folder_name == ".vssource"

\* ExternalIndexer._ext of the concrete indexer
ext == "idx"

\* tempfile.gettempdir()
gettempdir == "/tmp"

\* Python's None and False, as values of output_folder / default_out_folder
None == "<None>"
False == "<False>"

\* output_folder argument values: None, False, or a directory
OutputFolders == {None, False, "/out"}

\* default_out_folder constructor values: None (the default) or a directory
DefaultOutFolders == {None, "/cfg"}

(***************************************************************************)
(* Pure helpers of the class                                               *)
(***************************************************************************)
RECURSIVE map_names(_)
\* [file.name for file in files]
map_names(flist) ==
    IF Len(flist) = 0 THEN <<>>
    ELSE <<file_name(Head(flist))>> \o map_names(Tail(flist))

\* Indexer.get_joined_names
get_joined_names(flist) == join("_", map_names(flist))

\* file.stat().st_size of the source files of the universe, in bytes
st_size(f) ==
    CASE f = 1 -> 3
      [] f = 2 -> 5
      [] f = 3 -> 7
      [] OTHER -> 3

RECURSIVE sum_sizes(_)
\* sum(file.stat().st_size for file in files)
sum_sizes(flist) ==
    IF Len(flist) = 0 THEN 0
    ELSE st_size(Head(flist)) + sum_sizes(Tail(flist))

\* Indexer.get_videos_hash: md5 over the 32-byte little-endian total size
\* followed by the joined names.  The digest is represented by the pair it
\* is computed from (md5 taken as collision-free on the bounded universe).
get_videos_hash(flist) ==
    <<sum_sizes(flist), get_joined_names(flist)>>

\* get_out_folder falling back on the configured default_out_folder when
\* output_folder is unset
get_out_folder_configured(output_folder, file) ==
    IF output_folder = None
    THEN (IF default_out_folder = None THEN get_folder(file) ELSE default_out_folder)
    ELSE IF output_folder = False \/ output_folder = "" THEN gettempdir
    ELSE output_folder

\* ExternalIndexer.get_out_folder (file is always given by index)
get_out_folder(output_folder, file) ==
    IF output_folder = None THEN get_folder(file)
    ELSE IF output_folder = False \/ output_folder = "" THEN gettempdir
    ELSE output_folder

\* ExternalIndexer.get_idx_file_path applied to folder / index_folder_name /
\* filename, as a record of the path's components.  with_suffix replaces
\* the last dot-suffix of the filename, if it has one.
get_idx_file_path(folder, file_hash, name_pts) ==
    [folder |-> folder, sub |-> index_folder_name, hash |-> file_hash,
     name |-> join(".", drop_suffix(name_pts)), suffix |-> ext]

\* ExternalIndexer.get_video_idx_path
get_video_idx_path(folder, file_hash, video_name_parts) ==
    get_idx_file_path(folder, file_hash, drop_suffix(video_name_parts))

\* set(files) as a set of ids
to_set(flist) == {flist[i] : i \in 1..Len(flist)}

\* the files as listed by the caller, neither sorted nor deduplicated
as_listed(flist) == flist

\* list(sorted(set(files)))
sorted_set(flist) ==
    LET S == to_set(flist)
    IN  CHOOSE s \in [1..Cardinality(S) -> S] :
            \A i, j \in 1..Cardinality(S) : i < j => s[i] < s[j]

\* [f for f in files if f.get_folder().to_str() == folder]
RECURSIVE in_folder(_, _)
in_folder(flist, folder) ==
    IF Len(flist) = 0 THEN <<>>
    ELSE (IF get_folder(Head(flist)) = folder THEN <<Head(flist)>> ELSE <<>>)
         \o in_folder(Tail(flist), folder)

\* set([f.get_folder().to_str() for f in files])
folders_of(flist) == {get_folder(flist[i]) : i \in 1..Len(flist)}

\* the orders in which list(set(...)) can enumerate a set of strings: the
\* iteration order of a set is unspecified (string hashes are randomised
\* per interpreter run)
list_of_set(S) ==
    {s \in [1..Cardinality(S) -> S] :
        \A i, j \in 1..Cardinality(S) : i # j => s[i] # s[j]}

\* the lists of files a caller may pass: non-empty, at most MaxFiles long,
\* in any order and with repetitions
FileLists == UNION {[1..n -> Files] : n \in 1..MaxFiles}

\* content of an index artifact: a zero-byte file, an index the indexer's
\* format parses (with the source files it records), or a non-empty file
\* that does not parse
zero_byte == [kind |-> "zero", names |-> <<>>]
corrupt == [kind |-> "corrupt", names |-> <<>>]
valid(names) == [kind |-> "valid", names |-> names]

\* the filesystem after path p is written with content c
fs_write(p, c) == [q \in DOMAIN fs \cup {p} |-> IF q = p THEN c ELSE fs[q]]

\* the filesystem after every artifact of p's cache folder is removed
fs_remove_folder(p) ==
    [q \in {r \in DOMAIN fs : r.folder # p.folder} |-> fs[q]]

\* the filesystem after path p is removed
fs_remove(p) == [q \in DOMAIN fs \ {p} |-> fs[q]]

\* SPath.is_file
is_file(p) == p \in DOMAIN fs

\* the whole sub-batch handed to _index for every unit
unit_files_whole == files

\* the files of the unit being resolved: the whole sub-batch when joined,
\* one file of it when split
unit_files == IF args.split_files THEN <<files[ui]>> ELSE files

\* the target path of the unit being resolved
unit_output == outputs[ui]

\* number of the unit being resolved among all units of the call
unit_no == Len(acc) + ui

\* one entry of the call's log
event(op, res) == [unit |-> unit_no, path |-> unit_output, op |-> op, res |-> res]

\* what is kept of a finished call: its force argument, what it returned or
\* raised, and whether it deleted an index as corrupted
summary(called) ==
    [called |-> called, force |-> force, result |-> result, err |-> err,
     dropped |-> \E i \in 1..Len(log) : log[i].res = "deleted"]

\* the *cmd_args a caller may pass: none, or one extra argument
ExtraArgs == {<<>>, <<"--extra">>}

\* what a failing indexer may write: nothing, or a padded line, on each of
\* stdout and stderr
Tools ==
    [stdout : {<<>>, <<"o", "u", "t", "\n">>},
     stderr : {<<>>, <<" ", "e", "r", "r", "\n">>}]

\* a tool that writes nothing
silent == [stdout |-> <<>>, stderr |-> <<>>]

\* no node: the caller is not inside source
no_clip == [state |-> "none", frames |-> <<>>, ops |-> <<>>]

\* no call made yet
no_prev ==
    [called |-> FALSE, force |-> FALSE, result |-> <<>>, err |-> "",
     dropped |-> FALSE]

\* no second caller
alone == <<>>

\* the frame of a caller that has not called yet
idle ==
    [pc |-> "idle", force |-> FALSE, pending |-> <<>>, files |-> <<>>,
     outputs |-> <<>>, ui |-> 0, acc |-> <<>>, result |-> <<>>, err |-> "",
     log |-> <<>>, prev |-> no_prev, ncalls |-> 0, cmd_args |-> <<>>,
     procs |-> <<>>, msg |-> "", clip |-> no_clip]

\* the state after construction of the indexer, before the first call: the
\* batch the callers are going to index, source files of which at most one
\* is missing, the indexer binary and what it prints; no caller inside
\* index.  The cache and the second caller are set by the specifications.
InitEnv(forces, default_out_folders, output_folders, extra_args, binaries, tools) ==
    /\ self_force \in forces
    /\ default_out_folder \in default_out_folders
    /\ args \in [files : FileLists, split_files : BOOLEAN,
                 output_folder : output_folders, cmd_args : extra_args]
    /\ srcExists \in {Files} \cup {Files \ {f} : f \in to_set(args.files)}
    /\ installed \in binaries
    /\ tool \in tools
    /\ pc = "idle"
    /\ force = FALSE
    /\ pending = <<>>
    /\ files = <<>>
    /\ outputs = <<>>
    /\ ui = 0
    /\ acc = <<>>
    /\ result = <<>>
    /\ err = ""
    /\ log = <<>>
    /\ prev = no_prev
    /\ ncalls = 0
    /\ cmd_args = <<>>
    /\ procs = <<>>
    /\ msg = ""
    /\ clip = no_clip

\* an empty cache, an installed and silent indexer, calls without cmd_args
InitWith(forces, default_out_folders, output_folders) ==
    /\ InitEnv(forces, default_out_folders, output_folders, {<<>>}, {TRUE}, {silent})
    /\ fs = <<>>
    /\ other = alone

\* an indexer constructed with or without force and no default output
\* folder; output_folder unset or disabled
Init == InitWith(BOOLEAN, {None}, {None, False})

\* an indexer constructed with the default force=True and any default output
\* folder; every kind of output_folder
InitDirs == InitWith({TRUE}, DefaultOutFolders, OutputFolders)

(***************************************************************************)
(* ExternalIndexer.index                                                   *)
(***************************************************************************)
\* the paths of one single-folder batch, lines 208-228: one JOINED/SINGLE
\* path when joined, one path per file when split
plan_outputs(sub, split, output_folder) ==
    LET dest_folder == get_out_folder(output_folder, sub[1])
        fl == sorted_set(sub)
        hash_str == get_videos_hash(fl)
    IN  IF ~split
        THEN <<get_video_idx_path(dest_folder, hash_str,
                   IF Len(fl) > 1 THEN <<"JOINED">> ELSE <<"SINGLE">>)>>
        ELSE [i \in 1..Len(fl) |->
                 get_video_idx_path(dest_folder, hash_str, name_parts(fl[i]))]

\* an exception leaves index: nothing is returned
raise(e) ==
    /\ err' = e
    /\ pc' = "done"
    /\ UNCHANGED <<pending, files, outputs, ui, acc, result>>

\* advance returning the paths of the last folder's sub-batch alone
advance_last ==
    IF ui < Len(outputs)
    THEN /\ ui' = ui + 1
         /\ pc' = "is_file"
         /\ UNCHANGED <<pending, files, outputs, acc, result, err>>
    ELSE /\ acc' = acc \o outputs
         /\ pending' = Tail(pending)
         /\ IF Len(pending) > 1
            THEN pc' = "enter" /\ result' = result
            ELSE pc' = "done" /\ result' = outputs
         /\ UNCHANGED <<files, outputs, ui, err>>

\* _index returned for the current unit: go on with the next unit, the next
\* folder's sub-batch, or return the collected paths
advance ==
    IF ui < Len(outputs)
    THEN /\ ui' = ui + 1
         /\ pc' = "is_file"
         /\ UNCHANGED <<pending, files, outputs, acc, result, err>>
    ELSE /\ acc' = acc \o outputs
         /\ pending' = Tail(pending)
         /\ IF Len(pending) > 1
            THEN pc' = "enter" /\ result' = result
            ELSE pc' = "done" /\ result' = acc \o outputs
         /\ UNCHANGED <<files, outputs, ui, err>>

\* index(files, force, split_files, output_folder, *cmd_args) is entered:
\* lines 195-206.  Files of several folders are split into one recursive
\* call per folder, in the order list(set(...)) enumerates the folders; the
\* recursive calls are made without cmd_args.
call_index(f) ==
    /\ pc \in {"idle", "done"}
    /\ ncalls < MaxCalls
    /\ ncalls' = ncalls + 1
    /\ prev' = IF pc = "done" THEN summary(TRUE) ELSE prev
    /\ force' = f
    /\ \E unique_folders \in list_of_set(folders_of(args.files)) :
          /\ pending' = IF Len(unique_folders) > 1
                        THEN [i \in 1..Len(unique_folders) |->
                                 in_folder(args.files, unique_folders[i])]
                        ELSE <<args.files>>
          /\ cmd_args' = IF Len(unique_folders) > 1 THEN <<>> ELSE args.cmd_args
    /\ pc' = "enter"
    /\ files' = <<>>
    /\ outputs' = <<>>
    /\ ui' = 0
    /\ acc' = <<>>
    /\ result' = <<>>
    /\ err' = ""
    /\ log' = <<>>
    /\ procs' = <<>>
    /\ msg' = ""
    /\ UNCHANGED <<obj, fs, other>>

\* a caller calls index(files, force, split_files, output_folder, *cmd_args)
Index(f) ==
    /\ call_index(f)
    /\ clip' = no_clip

\* one single-folder batch, lines 208-228: output folder, sort and
\* deduplicate, hash (stats every file), target paths
Enter ==
    /\ pc = "enter"
    /\ LET sub == Head(pending)
           fl == sorted_set(sub)
       IN  IF \E i \in 1..Len(fl) : fl[i] \notin srcExists
           THEN raise("FileNotFoundError")
           ELSE /\ files' = fl
                /\ outputs' = plan_outputs(sub, args.split_files, args.output_folder)
                /\ ui' = 1
                /\ pc' = "is_file"
                /\ UNCHANGED <<pending, acc, result, err>>
    /\ UNCHANGED <<obj, fs, force, log, prev, ncalls, launched, aside>>

\* _index, line 215: output.is_file()
IsFile ==
    /\ pc = "is_file"
    /\ pc' = IF is_file(unit_output) THEN "stat" ELSE "run"
    /\ log' = Append(log, event("is_file", IF is_file(unit_output) THEN "yes" ELSE "no"))
    /\ UNCHANGED <<obj, fs, force, pending, files, outputs, ui, acc, result,
                   err, prev, ncalls, launched, aside>>

\* the condition of line 216 rebuilding whatever exists
must_rebuild_always(output) == TRUE

\* the condition of line 216 without "or force"
must_rebuild_size_only(output) == fs[output].kind = "zero"

\* the condition of line 216 without the size test
must_rebuild_force_only(output) == force

\* _index, line 216: output.stat().st_size == 0 or force
must_rebuild(output) == fs[output].kind = "zero" \/ force

\* _index, line 216: stat the existing output and decide
Stat ==
    /\ pc = "stat"
    /\ IF ~is_file(unit_output)
       THEN /\ raise("FileNotFoundError")
            /\ log' = Append(log, event("stat", "missing"))
       ELSE /\ pc' = IF must_rebuild(unit_output) THEN "unlink" ELSE "update"
            /\ log' = Append(log, event("stat", fs[unit_output].kind))
            /\ UNCHANGED <<pending, files, outputs, ui, acc, result, err>>
    /\ UNCHANGED <<obj, fs, force, prev, ncalls, launched, aside>>

\* _index, line 217: output.unlink(), which the filesystem may refuse
Unlink ==
    /\ pc = "unlink"
    /\ \/ /\ is_file(unit_output)
          /\ fs' = fs_remove(unit_output)
          /\ pc' = "run"
          /\ log' = Append(log, event("unlink", "ok"))
          /\ UNCHANGED <<pending, files, outputs, ui, acc, result, err>>
       \/ /\ raise("OSError")
          /\ log' = Append(log, event("unlink", "fail"))
          /\ UNCHANGED fs
    /\ UNCHANGED <<obj, force, prev, ncalls, launched, aside>>

\* ExternalIndexer.file_corrupted, lines 182-189, called by the concrete
\* indexer when index_path does not parse: outcome "deleted", or the
\* exception raised
file_corrupted_outcomes(index_path) ==
    IF self_force
    THEN {"deleted", "DeletionFailedError"}
    ELSE {"CorruptedIndexError"}

\* _index, line 219: update_video_filenames(output, files) of the concrete
\* indexer rewrites the source paths the index records; an index that does
\* not parse is handed to file_corrupted
Update ==
    /\ pc = "update"
    /\ IF ~is_file(unit_output)
       THEN /\ raise("FileNotFoundError")
            /\ log' = Append(log, event("update", "missing"))
            /\ UNCHANGED fs
       ELSE IF fs[unit_output].kind # "valid"
       THEN \E o \in file_corrupted_outcomes(unit_output) :
               /\ log' = Append(log, event("file_corrupted", o))
               /\ IF o = "deleted"
                  THEN fs' = fs_remove(unit_output) /\ advance
                  ELSE fs' = fs /\ raise(o)
       ELSE /\ fs' = fs_write(unit_output, valid(unit_files))
            /\ log' = Append(log, event("update", "ok"))
            /\ advance
    /\ UNCHANGED <<obj, force, prev, ncalls, launched, aside>>

\* what the external indexer can leave at the output path: a complete index
\* when it exits with status 0; nothing, an empty file or a partial file
\* when it exits with another status
RunOutcomes == {"ok", "fail_none", "fail_zero", "fail_partial"}

\* the outcomes of the command line handed to the shell: those of the
\* indexer, or the shell's non-zero "command not found" when the binary is
\* not installed
exits == IF installed THEN RunOutcomes ELSE {"fail_none"}

\* ExternalIndexer._bin_path of the concrete indexer
bin_path == "indexer"

\* ExternalIndexer._default_args of the concrete indexer
_default_args == <<"--single-input">>

\* get_cmd of the concrete indexer: the binary, the input files and the
\* output path, as the three leading arguments of the command
get_cmd(flist, output) == <<bin_path, flist, output>>

\* ExternalIndexer._get_bin_path, lines 136-139: the resolved binary, or the
\* exception raised
_get_bin_path == IF installed THEN bin_path ELSE "FileNotFoundError"

\* the characters str.strip removes
whitespace == {" ", "\t", "\n"}

RECURSIVE lstrip(_)
\* a text, given as its characters, without its leading whitespace
lstrip(t) ==
    IF Len(t) > 0 /\ Head(t) \in whitespace THEN lstrip(Tail(t)) ELSE t

RECURSIVE rstrip(_)
\* a text without its trailing whitespace
rstrip(t) ==
    IF Len(t) > 0 /\ t[Len(t)] \in whitespace
    THEN rstrip(SubSeq(t, 1, Len(t) - 1)) ELSE t

\* str.strip
strip(t) == join("", rstrip(lstrip(t)))

\* subprocess.Popen(cmd, text=True, encoding, shell=True, cwd), lines
\* 144-147: neither stdout= nor stderr= is passed, so the child inherits the
\* caller's streams and the object's stdout and stderr attributes are None
Popen(cmd) == [cmd |-> cmd, stdout |-> None, stderr |-> None]

\* proc.stdout.read() / proc.stderr.read(): what the child wrote to the pipe
read(stream) == IF stream = "stdout" THEN tool.stdout ELSE tool.stderr

\* line 165: the text of the exception before the output of the child
failure_head ==
    "There was an error while running the " \o bin_path \o " command!: "

\* lines 152-166: the text of the exception raised for a non-zero status
failure_text(proc) ==
    LET stderr == IF proc.stderr # None THEN strip(read("stderr")) ELSE ""
        stdout == IF proc.stdout # None THEN strip(read("stdout")) ELSE ""
    IN  failure_head
        \o (IF stderr # "" THEN "\n\t" \o stderr ELSE stderr)
        \o (IF stdout # "" THEN "\n\t" \o stdout ELSE stdout)

\* _run_index ignoring the exit status
_run_index_unchecked(outcome) ==
    LET proc == Popen(get_cmd(unit_files, unit_output) \o cmd_args \o _default_args)
    IN  /\ procs' = Append(procs, proc)
        /\ fs' = CASE outcome = "ok" -> fs_write(unit_output, valid(unit_files))
                   [] outcome = "fail_zero" -> fs_write(unit_output, zero_byte)
                   [] outcome = "fail_partial" -> fs_write(unit_output, corrupt)
                   [] OTHER -> fs
        /\ log' = Append(log, event("run", outcome))
        /\ msg' = msg
        /\ advance

\* ExternalIndexer._run_index, lines 141-166: launch the command, wait; a
\* non-zero status raises
_run_index(outcome) ==
    LET proc == Popen(get_cmd(unit_files, unit_output) \o cmd_args \o _default_args)
    IN  /\ procs' = Append(procs, proc)
        /\ fs' = CASE outcome = "ok" -> fs_write(unit_output, valid(unit_files))
                   [] outcome = "fail_zero" -> fs_write(unit_output, zero_byte)
                   [] outcome = "fail_partial" -> fs_write(unit_output, corrupt)
                   [] OTHER -> fs
        /\ log' = Append(log, event("run", outcome))
        /\ IF outcome = "ok"
           THEN msg' = msg /\ advance
           ELSE msg' = failure_text(proc) /\ raise("IndexerExecutionError")

\* _index, line 221
Run ==
    /\ pc = "run"
    /\ \E outcome \in exits : _run_index(outcome)
    /\ UNCHANGED <<obj, force, prev, ncalls, aside>>

Next ==
    \/ \E f \in BOOLEAN : Index(f)
    \/ Enter
    \/ IsFile
    \/ Stat
    \/ Unlink
    \/ Update
    \/ Run

Spec == Init /\ [][Next]_vars

SpecDirs == InitDirs /\ [][Next]_vars

(***************************************************************************)
(* A cache that earlier sessions have filled                               *)
(***************************************************************************)
\* every path index computes for the units of the batch
own_paths(a) ==
    UNION {to_set(plan_outputs(in_folder(a.files, d), a.split_files, a.output_folder)) :
             d \in folders_of(a.files)}

\* paths index computes for other batches: each other file alone, and the
\* batch itself in the other mode (other logical units of its identity)
other_paths(a) ==
    ( UNION {to_set(plan_outputs(<<g>>, s, a.output_folder)) :
               g \in Files \ to_set(a.files), s \in BOOLEAN}
      \cup own_paths([a EXCEPT !.split_files = ~a.split_files]) )
    \ own_paths(a)

\* the cache holds the artifacts of other batches: empty ones for single
\* units, complete ones for the others
InitCache ==
    /\ InitEnv({TRUE}, {None}, {None, False}, {<<>>}, {TRUE}, {silent})
    /\ fs = [p \in other_paths(args) |->
                IF p.name = "SINGLE" THEN zero_byte ELSE valid(<<>>)]
    /\ other = alone

SpecCache == InitCache /\ [][Next]_vars

(***************************************************************************)
(* The indexer process: binary, output and extra arguments                 *)
(***************************************************************************)
\* an empty cache; an indexer binary that is installed or not and prints or
\* not when it fails; calls with and without cmd_args
InitTool ==
    /\ InitEnv({TRUE}, {None}, {None}, ExtraArgs, BOOLEAN, Tools)
    /\ fs = <<>>
    /\ other = alone

SpecTool == InitTool /\ [][Next]_vars

(***************************************************************************)
(* Indexer.source / ExternalIndexer.source                                 *)
(***************************************************************************)
\* self.source_func(idx_filename.to_str()): the node that decodes one index
source_func(idx_filename) ==
    [state |-> "open", frames |-> <<idx_filename>>, ops |-> <<>>]

RECURSIVE all_frames(_)
\* the frames of the clips, one clip after the other
all_frames(clips) ==
    IF Len(clips) = 0 THEN <<>>
    ELSE Head(clips).frames \o all_frames(Tail(clips))

RECURSIVE all_ops(_)
\* the filters applied to the clips
all_ops(clips) ==
    IF Len(clips) = 0 THEN <<>>
    ELSE Head(clips).ops \o all_ops(Tail(clips))

\* core.std.Splice(clips)
Splice(clips) ==
    [state |-> "open", frames |-> all_frames(clips),
     ops |-> Append(all_ops(clips), "Splice")]

\* vstools.initialize_clip(clip, bits, matrix, ...)
initialize_clip(c) == [c EXCEPT !.ops = Append(@, "initialize_clip")]

\* _source initializing every clip before the splice
_source_each(clips) ==
    IF Len(clips) = 1 THEN initialize_clip(clips[1])
    ELSE Splice([i \in 1..Len(clips) |-> initialize_clip(clips[i])])

\* Indexer._source, lines 60-79
_source(clips) ==
    initialize_clip(IF Len(clips) = 1 THEN clips[1] ELSE Splice(clips))

\* ExternalIndexer.source, line 252: index is called with the files alone,
\* so with force=False, split_files=False, output_folder=None, no cmd_args
Source ==
    /\ ~args.split_files /\ args.output_folder = None /\ args.cmd_args = <<>>
    /\ call_index(FALSE)
    /\ clip' = [no_clip EXCEPT !.state = "indexing"]

\* ExternalIndexer.source, lines 254-257, once index has returned: one node
\* per index file, handed to _source
Open ==
    /\ pc = "done" /\ err = "" /\ clip.state = "indexing"
    /\ clip' = _source([i \in 1..Len(result) |-> source_func(result[i])])
    /\ UNCHANGED <<obj, fs, pc, force, pending, files, outputs, ui, acc, result,
                   err, log, prev, ncalls, cmd_args, procs, msg, other>>

NextSource ==
    \/ Next
    \/ Source
    \/ Open

\* an empty cache and batches that source can pass to index
InitSource ==
    /\ InitEnv(BOOLEAN, {None}, {None}, {<<>>}, {TRUE}, {silent})
    /\ ~args.split_files
    /\ fs = <<>>
    /\ other = alone

SpecSource == InitSource /\ [][NextSource]_vars

(***************************************************************************)
(* Two callers                                                             *)
(***************************************************************************)
\* the frame of the running caller
saved ==
    [pc |-> pc, force |-> force, pending |-> pending, files |-> files,
     outputs |-> outputs, ui |-> ui, acc |-> acc, result |-> result,
     err |-> err, log |-> log, prev |-> prev, ncalls |-> ncalls,
     cmd_args |-> cmd_args, procs |-> procs, msg |-> msg, clip |-> clip]

\* the scheduler lets the other caller run: between any two filesystem
\* operations or process launches of a call (nothing in index holds a lock)
Switch ==
    /\ pc # "idle" \/ other.pc # "idle"
    /\ other' = saved
    /\ pc' = other.pc
    /\ force' = other.force
    /\ pending' = other.pending
    /\ files' = other.files
    /\ outputs' = other.outputs
    /\ ui' = other.ui
    /\ acc' = other.acc
    /\ result' = other.result
    /\ err' = other.err
    /\ log' = other.log
    /\ prev' = other.prev
    /\ ncalls' = other.ncalls
    /\ cmd_args' = other.cmd_args
    /\ procs' = other.procs
    /\ msg' = other.msg
    /\ clip' = other.clip
    /\ UNCHANGED <<obj, fs>>

NextTwo ==
    \/ Next
    \/ Switch

\* an empty cache and one joined batch of /d1/a.mkv and /d1/b.mkv, both on
\* disk, indexed by both callers
InitTwo ==
    /\ InitEnv({TRUE}, {None}, {None}, {<<>>}, {TRUE}, {silent})
    /\ ~args.split_files
    /\ to_set(args.files) \subseteq {1, 3}
    /\ srcExists = Files
    /\ fs = <<>>
    /\ other = idle

SpecTwo == InitTwo /\ [][NextTwo]_vars

(***************************************************************************)
(* Vocabulary of the properties                                            *)
(***************************************************************************)
\* the running or last call returned its list of paths
Returned == pc = "done" /\ err = ""

\* every file of the batch lies in one folder
OneFolder == Cardinality(folders_of(args.files)) = 1

\* the log holds an entry of unit u with operation op and result res
Logged(u, op, res) ==
    \E i \in 1..Len(log) : log[i].unit = u /\ log[i].op = op /\ log[i].res = res

\* position i of the log and the two after it are op1/res1, op2/res2 and
\* op3/res3 of one unit
Chain(i, op1, res1, op2, res2, op3, res3) ==
    /\ i + 2 <= Len(log)
    /\ log[i].op = op1 /\ log[i].res = res1
    /\ log[i + 1].op = op2 /\ log[i + 1].res = res2
    /\ log[i + 2].op = op3 /\ log[i + 2].res = res3
    /\ log[i + 1].unit = log[i].unit /\ log[i + 2].unit = log[i].unit

\* what follows the entry at position i, which found the artifact of its unit
\* in need of deletion: the artifact is unlinked next and, once unlinked, the
\* indexer is run for the same unit next
DeletedThenRebuilt(i) ==
    /\ i = Len(log) => pc = "unlink"
    /\ i < Len(log) => log[i + 1].op = "unlink" /\ log[i + 1].unit = log[i].unit
    /\ (i < Len(log) /\ log[i + 1].res = "ok") =>
          /\ i + 1 = Len(log) => pc = "run" /\ ~is_file(log[i].path)
          /\ i + 1 < Len(log) =>
                log[i + 2].op = "run" /\ log[i + 2].unit = log[i].unit

\* no unit is handed to the indexer twice in one call
RunOncePerUnit ==
    \A j \in 1..Len(log) : log[j].op = "run" =>
        \A i \in 1..(j - 1) : log[i].op = "run" => log[i].unit # log[j].unit

(***************************************************************************)
(* C1..C10                                                                 *)
(***************************************************************************)
\* C1: idempotence.  When index is called again with force=false on the
\* same one-folder batch, after a call with force=false that returned and
\* left every unit built or reused, the second call returns the same list,
\* reuses every unit (update_video_filenames) and never starts the indexer,
\* nor deletes anything; no call starts the indexer twice for one unit.
C1_Idempotent ==
    /\ RunOncePerUnit
    /\ (OneFolder /\ prev.called /\ ~prev.force /\ prev.err = ""
            /\ ~prev.dropped /\ ~force /\ pc # "idle") =>
          /\ err = ""
          /\ \A i \in 1..Len(log) : log[i].op \notin {"run", "unlink", "file_corrupted"}
          /\ pc = "done" =>
                /\ result = prev.result
                /\ \A u \in 1..Len(result) : Logged(u, "update", "ok")

\* C1's case: the first call built two units from an empty cache and the
\* second call has returned
C1_Witness ==
    /\ Returned /\ OneFolder /\ ncalls = 2 /\ ~force
    /\ prev.called /\ ~prev.force /\ prev.err = "" /\ ~prev.dropped
    /\ Len(result) = 2 /\ result[1] # result[2]

\* C2: forced rebuild.  In a call with force=true an artifact found at a
\* unit's path, whatever its content, is unlinked and the indexer is then run
\* for that unit; update_video_filenames is never called, and when the call
\* returns every unit has been built by an indexer run.
C2_ForcedRebuild ==
    force =>
        /\ \A i \in 1..Len(log) :
              /\ log[i].op \notin {"update", "file_corrupted"}
              /\ (log[i].op = "is_file" /\ log[i].res = "yes") =>
                    /\ i = Len(log) => pc = "stat"
                    /\ i < Len(log) =>
                          /\ log[i + 1].op = "stat" /\ log[i + 1].unit = log[i].unit
                          /\ DeletedThenRebuilt(i + 1)
        /\ Returned => \A u \in 1..Len(result) : Logged(u, "run", "ok")

\* C2's case: a valid, non-empty artifact was deleted and rebuilt
C2_Witness ==
    /\ Returned /\ force
    /\ \E i \in 1..Len(log) : Chain(i, "stat", "valid", "unlink", "ok", "run", "ok")

\* C3: a zero-byte artifact found with force=false is unlinked and the
\* indexer is then run for the unit, as for a missing artifact;
\* update_video_filenames is not called for it.
C3_ZeroByteRebuilt ==
    ~force =>
        \A i \in 1..Len(log) : (log[i].op = "stat" /\ log[i].res = "zero") =>
            /\ DeletedThenRebuilt(i)
            /\ \A j \in (i + 1)..Len(log) :
                  log[j].unit = log[i].unit => log[j].op \in {"unlink", "run"}

\* C3's case: a zero-byte artifact was deleted and rebuilt without force
C3_Witness ==
    /\ Returned /\ ~force
    /\ \E i \in 1..Len(log) : Chain(i, "stat", "zero", "unlink", "ok", "run", "ok")

\* C4: corruption without force.  When index is called with force=false and
\* the artifact does not parse, the call fails with CorruptedIndexError, the
\* artifact stays on disk unchanged and the indexer is not run.
C4_CorruptNoForce ==
    \A i \in 1..Len(log) : (~force /\ log[i].op = "file_corrupted") =>
        /\ pc = "done" /\ err = "CorruptedIndexError"
        /\ is_file(log[i].path) /\ fs[log[i].path] = corrupt
        /\ \A j \in i..Len(log) : log[j].op # "run"

\* C5: corruption with force.  When index is called with force=true and the
\* artifact found does not parse, it is deleted and then rebuilt by the
\* indexer; when the deletion fails the call fails with DeletionFailedError
\* and the indexer is not run.
C5_CorruptForce ==
    \A i \in 1..Len(log) : (force /\ log[i].op = "stat" /\ log[i].res = "corrupt") =>
        /\ DeletedThenRebuilt(i)
        /\ (i < Len(log) /\ log[i + 1].res = "fail") =>
              /\ i + 1 = Len(log)
              /\ pc = "done" /\ err = "DeletionFailedError"

\* C6: split mode.  Every path returned by index(files, split_files=true)
\* for a one-folder batch is the path index([file], split_files=true)
\* returns for that file alone: its content identity is the file's own.
C6_SplitIndependent ==
    (Returned /\ OneFolder /\ args.split_files) =>
        /\ Len(result) = Len(files)
        /\ \A i \in 1..Len(result) :
              result[i] = plan_outputs(<<files[i]>>, TRUE, args.output_folder)[1]

RECURSIVE first_seen(_, _)
\* the distinct folders of files in the order of their first occurrence
first_seen(fls, seen) ==
    IF Len(fls) = 0 THEN <<>>
    ELSE IF get_folder(Head(fls)) \in seen THEN first_seen(Tail(fls), seen)
    ELSE <<get_folder(Head(fls))>>
         \o first_seen(Tail(fls), seen \cup {get_folder(Head(fls))})

RECURSIVE per_folder(_)
\* the results of the folders' batches, concatenated in the given order
per_folder(folders) ==
    IF Len(folders) = 0 THEN <<>>
    ELSE plan_outputs(in_folder(args.files, Head(folders)),
                      args.split_files, args.output_folder)
         \o per_folder(Tail(folders))

\* C7: multi-folder partition.  The list index returns is the folders'
\* results concatenated in the order in which the folders first occur in the
\* input.
C7_FolderOrder ==
    Returned => result = per_folder(first_seen(args.files, {}))

\* the listings of the files of flist: any order, any repetitions, at most
\* MaxFiles long
relistings(flist) ==
    UNION {{q \in [1..n -> to_set(flist)] : to_set(q) = to_set(flist)} :
             n \in 1..MaxFiles}

\* C8: identity determinism.  For a one-folder batch the content identity and
\* the paths planned for the units, and the list returned, are those of every
\* other listing of the same files, in any order and with any repetitions; a
\* single file listed several times resolves to the SINGLE path.
C8_IdentityDeterminism ==
    (OneFolder /\ ((pc = "is_file" /\ ui = 1) \/ Returned)) =>
        /\ \A q \in relistings(args.files) :
              /\ outputs = plan_outputs(q, args.split_files, args.output_folder)
              /\ \A i \in 1..Len(outputs) :
                    outputs[i].hash = get_videos_hash(sorted_set(q))
              /\ Returned => result = outputs
        /\ (Cardinality(to_set(args.files)) = 1 /\ ~args.split_files) =>
              Len(outputs) = 1 /\ outputs[1].name = "SINGLE"

\* C8's case: two files listed against the sorted order, indexed and returned
C8_Witness ==
    /\ Returned /\ OneFolder
    /\ Len(args.files) = 2 /\ args.files[1] > args.files[2]

\* the units a batch asks for: one per folder when joined, one per distinct
\* file when split
UnitsRequested ==
    IF args.split_files THEN Cardinality(to_set(args.files))
    ELSE Cardinality(folders_of(args.files))

\* C9: all or nothing.  A source file that cannot be stat'ed and a non-zero
\* exit of the indexer end the call with the error: nothing is returned, the
\* failed run is the last operation of the call (no later unit is touched, no
\* retry), and no unit is resolved in a folder with a missing file; a call
\* that returns, returns one path for every unit requested.
C9_AllOrNothing ==
    /\ err # "" => pc = "done" /\ result = <<>>
    /\ \A i \in 1..Len(log) : (log[i].op = "run" /\ log[i].res # "ok") =>
          i = Len(log) /\ pc = "done" /\ err = "IndexerExecutionError"
    /\ RunOncePerUnit
    /\ pc \in {"is_file", "stat", "unlink", "update", "run"} =>
          to_set(files) \subseteq srcExists
    /\ err = "FileNotFoundError" => ~(to_set(args.files) \subseteq srcExists)
    /\ Returned =>
          /\ Len(result) = UnitsRequested
          /\ to_set(args.files) \subseteq srcExists
          /\ \A i \in 1..Len(log) : log[i].op = "run" => log[i].res = "ok"

\* C9's case: the indexer failed on a later unit after an earlier unit had
\* been built, and nothing was returned
C9_Witness ==
    /\ pc = "done" /\ err = "IndexerExecutionError" /\ result = <<>>
    /\ \E i \in 1..Len(log) : log[i].op = "run" /\ log[i].res = "ok"

\* C10: output directory.  Every artifact path of a batch lies under the
\* explicit output_folder when one is given, under the system temp directory
\* when output_folder is False, and under the folder of the batch's source
\* files when it is None, whatever default_out_folder the indexer was
\* constructed with.
C10_OutputDirPolicy ==
    \A i \in 1..Len(outputs) :
        /\ outputs[i].sub = index_folder_name
        /\ outputs[i].folder =
              CASE args.output_folder = None -> get_folder(files[1])
                [] args.output_folder = False -> gettempdir
                [] OTHER -> args.output_folder

\* C10's case: an indexer configured with a default output folder was called
\* with output_folder unset and returned a path beside the source file
C10_Witness ==
    /\ Returned /\ default_out_folder # None /\ args.output_folder = None
    /\ result[1].folder = get_folder(args.files[1])

(***************************************************************************)
(* C11..C20                                                                *)
(***************************************************************************)
\* the text _run_index builds when it reads both streams of the child
captured_text == failure_text([stdout |-> "PIPE", stderr |-> "PIPE"])

\* C11: indexer failure reporting.  Whenever the indexer, installed and
\* launched, exits with a non-zero status the call fails with
\* IndexerExecutionError, and the error's text carries the trimmed stderr and
\* stdout the tool wrote.
C11_FailureReport ==
    \A i \in 1..Len(log) : (installed /\ log[i].op = "run" /\ log[i].res # "ok") =>
        /\ pc = "done" /\ err = "IndexerExecutionError"
        /\ msg = captured_text

\* every run of the indexer by either caller, in this and the previous
\* call, exited with status 0 and no unlink was refused
AllWentWell ==
    /\ prev.err = "" /\ other.prev.err = ""
    /\ ~prev.dropped /\ ~other.prev.dropped
    /\ \A l \in {log, other.log} : \A i \in 1..Len(l) :
          /\ l[i].op = "run" => l[i].res = "ok"
          /\ l[i].op = "unlink" => l[i].res = "ok"

\* C12: concurrent check-then-build.  When two callers have run index on the
\* same batch, interleaved in any way, and every indexer run succeeded, both
\* calls have returned without error the same paths, and each path holds a
\* complete index of the unit's files.
C12_ConcurrentBuild ==
    (pc = "done" /\ other.pc = "done" /\ AllWentWell) =>
        /\ err = "" /\ other.err = ""
        /\ result = other.result
        /\ \A i \in 1..Len(result) :
              is_file(result[i]) /\ fs[result[i]].kind = "valid"

\* the i-th file of the set S in the order sorted() gives
nth(S, i) == CHOOSE f \in S : Cardinality({g \in S : g < f}) = i - 1

\* the stem of a source file's name
stem(f) == join(".", drop_suffix(name_parts(f)))

\* the paths of the units of the files of folder d: one for the folder when
\* joined; when split, the i-th path is that of the i-th of the folder's
\* distinct files in sorted order
units_of(d) ==
    LET S == {f \in to_set(args.files) : get_folder(f) = d}
        sorted == [i \in 1..Cardinality(S) |-> nth(S, i)]
        dest == get_out_folder(args.output_folder, sorted[1])
    IN  IF args.split_files
        THEN [i \in 1..Len(sorted) |->
                 get_video_idx_path(dest, get_videos_hash(sorted), name_parts(sorted[i]))]
        ELSE <<get_video_idx_path(dest, get_videos_hash(sorted),
                   IF Len(sorted) > 1 THEN <<"JOINED">> ELSE <<"SINGLE">>)>>

RECURSIVE units_in(_)
\* the units of the folders, folder after folder
units_in(folders) ==
    IF Len(folders) = 0 THEN <<>>
    ELSE units_of(Head(folders)) \o units_in(Tail(folders))

\* C13 as stated: in split mode index returns one path per file of the input
\* list, the i-th being the artifact of the i-th file listed; in joined mode
\* one path per folder.
C13_InputOrder ==
    Returned =>
        IF args.split_files
        THEN /\ Len(result) = Len(args.files)
             /\ \A i \in 1..Len(result) :
                   /\ result[i].name = stem(args.files[i])
                   /\ result[i].folder =
                         get_out_folder(args.output_folder, args.files[i])
        ELSE Len(result) = Cardinality(folders_of(args.files))

\* C13, amended: index returns exactly one path per logical unit, folder
\* after folder: in joined mode one path per folder; in split mode one path
\* per distinct file, the i-th path of a folder being the artifact of the
\* i-th of the folder's files in sorted order.
C13_ResultAssembly ==
    Returned =>
        /\ Len(result) = UnitsRequested
        /\ \E folders \in list_of_set(folders_of(args.files)) :
              result = units_in(folders)

\* C13's case: two files of one folder listed against the sorted order and
\* indexed split
C13_Witness ==
    /\ Returned /\ args.split_files /\ OneFolder
    /\ Len(args.files) = 2 /\ args.files[1] > args.files[2]
    /\ result[1].name = stem(args.files[2])

C15_SourceAssembly ==
    clip.state = "open" =>
        /\ clip.frames = result
        /\ clip.ops = IF Len(result) > 1
                      THEN <<"Splice", "initialize_clip">>
                      ELSE <<"initialize_clip">>

\* C15's case: source of files of two folders has returned a spliced node
C15_Witness ==
    /\ clip.state = "open" /\ Len(clip.frames) = 2
    /\ clip.frames[1] # clip.frames[2]

\* the log entries of unit u
entries_of(u) == {i \in 1..Len(log) : log[i].unit = u}

C17_MissingSourceFirst ==
    (pc # "idle" /\ ~(to_set(args.files) \subseteq srcExists)) =>
        /\ log = <<>>
        /\ procs = <<>>
        /\ pc = "done" => err = "FileNotFoundError"

\* C18: extra arguments reach every indexer run.  Every command line
\* launched is get_cmd of a unit of the call, followed by the caller's
\* cmd_args, followed by the default arguments.
C18_ExtraArgs ==
    \A i \in 1..Len(procs) :
        \E o \in to_set(acc \o outputs), u \in FileLists :
            procs[i].cmd = get_cmd(u, o) \o args.cmd_args \o _default_args

\* C19: one artifact per logical unit.  The units of one call resolve to
\* pairwise distinct paths: those of one folder's batch, and those of the
\* batches of different folders.
C19_DistinctPaths ==
    LET all == acc \o (IF pc = "done" THEN <<>> ELSE outputs)
    IN  \A i, j \in 1..Len(all) : i # j => all[i] # all[j]

\* C20: frame of an index call.  A step of a call creates, deletes or
\* rewrites an artifact only at a path computed for a unit of the call;
\* every other file of the cache is there, with the same content, before and
\* after the step.
C20_Frame ==
    [][\A p \in DOMAIN fs \cup DOMAIN fs' :
          (p \notin DOMAIN fs \/ p \notin DOMAIN fs' \/ fs[p] # fs'[p]) =>
              p \in to_set(outputs) /\ p \in own_paths(args)]_vars

\* C20's case: a call that deleted and rebuilt its artifact has returned and
\* the artifacts of other batches are in the cache as they were
C20_Witness ==
    /\ Returned
    /\ \E i \in 1..Len(log) : Chain(i, "stat", "valid", "unlink", "ok", "run", "ok")
    /\ other_paths(args) # {}
    /\ \A p \in other_paths(args) : is_file(p) /\ fs[p].kind \in {"zero", "valid"}
    /\ \E p \in other_paths(args) : p.folder = result[1].folder

====
